---- MODULE Spec2Model ----
(***************************************************************************)
(* GameStateManager (src/src/game_manager.py): the session manager of the  *)
(* game bridge.  The manager owns at most one conversation object          *)
(* (self.__talk) and serves four request kinds: start, continue, player    *)
(* input and end.  Strings the code inspects character by character (ids,  *)
(* world ids, voice type strings, spoken lines) are sequences of           *)
(* one-character strings; JSON objects are records whose DOMAIN is the set *)
(* of keys present; Python dicts the code only copies are sets of          *)
(* <<key, value>> pairs.                                                   *)
(***************************************************************************)
EXTENDS Integers, Sequences, FiniteSets, TLC

VARIABLES
    talk,       \* self.__talk: None or the id of the conversation held
    created,    \* number of conversation objects constructed so far (ids 1..created)
    ended,      \* ids of the conversations on which end() has been called
    chars,      \* character records of the held conversation
    world,      \* world id of the held conversation's context
    ctx,        \* scene context of the held conversation
    config,     \* self.__config (voice_player_input, player_voice_model)
    first_resolved, \* history: per reference id, the enrichment fields of the
                \* first record built for it in the held conversation
    kind,       \* kind of the last request served
    reply,      \* reply returned to the last request
    calls,      \* calls made while serving the last request, in order: those to
                \* the conversation and the game, and load_character's log record
    pc,         \* per request thread: the line of start_conversation it is at
    req         \* per request thread: the request it is serving

vars == <<talk, created, ended, chars, world, ctx, config, first_resolved,
          kind, reply, calls, pc, req>>

(***************************************************************************)
(* Bounds of the model.                                                    *)
(***************************************************************************)
MaxSessions == 2    \* conversations constructed in one run
MaxActors == 2      \* actors carried by one request
MaxWorldLen == 3    \* characters of a raw world id

None == 0

(***************************************************************************)
(* Character classes and small string helpers.                             *)
(***************************************************************************)
UpperCase == {"A","B","C","D","E","F","G","H","I","J","K","L","M",
              "N","O","P","Q","R","S","T","U","V","W","X","Y","Z"}
LowerCase == {"a","b","c","d","e","f","g","h","i","j","k","l","m",
              "n","o","p","q","r","s","t","u","v","w","x","y","z"}
Digits == {"0","1","2","3","4","5","6","7","8","9"}

\* The set of sequences over S of length at most n.
SeqsUpTo(S, n) == UNION {[1..k -> S] : k \in 0..n}

\* The character class [^A-Za-z] : a plausible slip of the class below.
CleanseClassNoDigits(c) == c \notin (UpperCase \cup LowerCase)
\* WORLD_ID_CLEANSE_REGEX = '[^A-Za-z0-9]+' : the characters a match consists of.
CleanseClass(c) == c \notin (UpperCase \cup LowerCase \cup Digits)

\* End (exclusive) of the maximal run of class characters starting at i: the
\* greedy '+' of the regex.
RECURSIVE MatchEnd(_, _)
MatchEnd(s, i) ==
    IF i <= Len(s) /\ CleanseClass(s[i]) THEN MatchEnd(s, i + 1) ELSE i

\* regex.sub("", s) from position i on: every match is replaced by "".
RECURSIVE RegexSubFrom(_, _)
RegexSubFrom(s, i) ==
    IF i > Len(s) THEN <<>>
    ELSE IF CleanseClass(s[i]) THEN RegexSubFrom(s, MatchEnd(s, i))
    ELSE <<s[i]>> \o RegexSubFrom(s, i + 1)

WORLD_ID_CLEANSE_REGEX_sub(s) == RegexSubFrom(s, 1)

DefaultWorld == <<"d","e","f","a","u","l","t">>

\* str.split(sep) for a one-character separator.
RECURSIVE Split(_, _)
Split(s, sep) ==
    IF \A i \in 1..Len(s) : s[i] # sep THEN <<s>>
    ELSE LET k == CHOOSE i \in 1..Len(s) :
                      s[i] = sep /\ \A j \in 1..(i - 1) : s[j] # sep
         IN  <<SubSeq(s, 1, k - 1)>> \o Split(SubSeq(s, k + 1, Len(s)), sep)

\* actor_voice_model.split('<')[1].split(' ')[0]
ParseIngameVoiceModel(vt) == Split(Split(vt, "<")[2], " ")[1]

(***************************************************************************)
(* utils.convert_to_skyrim_hex_format: a decimal id string becomes the     *)
(* game's hexadecimal id; a string that is no decimal number raises.       *)
(***************************************************************************)
DigitValue(c) ==
    CASE c = "0" -> 0 [] c = "1" -> 1 [] c = "2" -> 2 [] c = "3" -> 3
      [] c = "4" -> 4 [] c = "5" -> 5 [] c = "6" -> 6 [] c = "7" -> 7
      [] c = "8" -> 8 [] c = "9" -> 9

HexDigit == <<"0","1","2","3","4","5","6","7","8","9","A","B","C","D","E","F">>

RECURSIVE DecimalValue(_)
DecimalValue(s) ==
    IF Len(s) = 0 THEN 0
    ELSE 10 * DecimalValue(SubSeq(s, 1, Len(s) - 1)) + DigitValue(s[Len(s)])

RECURSIVE ToHex(_)
ToHex(n) ==
    IF n < 16 THEN <<HexDigit[n + 1]>>
    ELSE ToHex(n \div 16) \o <<HexDigit[(n % 16) + 1]>>

convert_to_skyrim_hex_format(s) ==
    IF Len(s) > 0 /\ \A i \in 1..Len(s) : s[i] \in Digits
    THEN [ok |-> TRUE, val |-> ToHex(DecimalValue(s)), exc |-> ""]
    ELSE [ok |-> FALSE, val |-> <<>>, exc |-> "CharacterDoesNotExist"]

(***************************************************************************)
(* Collaborators the manager calls.  Their code is outside                 *)
(* game_manager.py; they are modelled at their interface.                  *)
(***************************************************************************)
NoInfo ==
    [name |-> "", ingame_voice_model |-> <<>>, bio |-> "", tts_voice_model |-> "",
     csv_in_game_voice_model |-> "", advanced_voice_model |-> "",
     voice_accent |-> "", is_generic_npc |-> FALSE]

\* gameable.load_external_character_info: the enrichment lookup, a table keyed
\* by the base id.  Base id 63 (decimal 99) is the unknown actor; base id B
\* (decimal 11) is a generic template, for which the lookup returns its own
\* name and in-game voice model.
load_external_character_info(base_id, character_name, race, gender, voice) ==
    IF base_id = <<"6","3">>
    THEN [ok |-> FALSE, exc |-> "CharacterDoesNotExist", info |-> NoInfo]
    ELSE IF base_id = <<"B">>
    THEN [ok |-> TRUE, exc |-> "",
          info |-> [name |-> "Bandit", ingame_voice_model |-> <<"G","v">>,
                    bio |-> "bio_B", tts_voice_model |-> "tts_B",
                    csv_in_game_voice_model |-> "csv_B",
                    advanced_voice_model |-> "adv_B",
                    voice_accent |-> "acc_B", is_generic_npc |-> TRUE]]
    ELSE [ok |-> TRUE, exc |-> "",
          info |-> [name |-> character_name,
                    ingame_voice_model |-> ParseIngameVoiceModel(voice),
                    bio |-> "bio_A", tts_voice_model |-> "tts_A",
                    csv_in_game_voice_model |-> "csv_A",
                    advanced_voice_model |-> "adv_A",
                    voice_accent |-> "acc_A", is_generic_npc |-> FALSE]]

\* gameable.get_weather_description: a weather code becomes a description.
get_weather_description(w) == "weather_" \o w

\* The context a new conversation starts with, before its first update.
InitialContext ==
    [location |-> <<>>, time |-> 0, ingame_events |-> <<>>, weather |-> "",
     custom_context_values |-> {}]

Call(op, s, arg) == [op |-> op, s |-> s, arg |-> arg]

IsEnded(st) == st.talk \in st.ended

\* conversation.contains_character / get_character (keyed by reference id).
contains_character(st, ref_id) == \E c \in st.chars : c.ref_id = ref_id
get_character(st, ref_id) == CHOOSE c \in st.chars : c.ref_id = ref_id

\* conversation.add_or_update_character: insert if new, replace if known, in
\* the order of the list; an ended conversation accepts nothing.
RECURSIVE MergeCharacters(_, _, _)
MergeCharacters(cs, actors, i) ==
    IF i > Len(actors) THEN cs
    ELSE MergeCharacters(
             {c \in cs : c.ref_id # actors[i].ref_id} \cup {actors[i]},
             actors, i + 1)

add_or_update_character(st, actors) ==
    IF IsEnded(st) THEN st
    ELSE [st EXCEPT !.chars = MergeCharacters(st.chars, actors, 1)]

\* conversation.update_context: the scene context is replaced wholesale.
conversation_update_context(st, location, time, ingame_events, weather, custom) ==
    IF IsEnded(st) THEN st
    ELSE [st EXCEPT !.ctx = [location |-> location, time |-> time,
                             ingame_events |-> ingame_events,
                             weather |-> weather,
                             custom_context_values |-> custom]]

\* conversation.end: the conversation is ended and its records discarded.
conversation_end(st) ==
    [st EXCEPT !.ended = @ \cup {st.talk}, !.chars = {}]

\* context(world_id, ...) and conversation(context, ...): a fresh object with
\* no characters.
conversation_new(st, world_id) ==
    [st EXCEPT !.talk = st.created + 1, !.created = st.created + 1,
               !.chars = {}, !.world = world_id, !.ctx = InitialContext]

(***************************************************************************)
(* GameStateManager.load_character                                         *)
(***************************************************************************)
\* A Python dict given as a set of <<key, value>> pairs.
HasKey(d, k) == \E p \in d : p[1] = k
Get(d, k) == (CHOOSE p \in d : p[1] = k)[2]

\* __convert_to_equipment_item_dictionary: every item name is wrapped in an
\* EquipmentItem; a falsy input gives the empty dictionary.
convert_to_equipment_item_dictionary(input_dict) ==
    IF input_dict # {}
    THEN {<<p[1], [EquipmentItem |-> p[2]]>> : p \in input_dict}
    ELSE {}

\* Lines 233-234 with the test always true: the configured model whatever
\* the game sends.
get_player_voice_model_configured(game_value, cfg) == cfg.player_voice_model
\* __get_player_voice_model; the value None is the empty sequence, a given
\* value a one-element sequence.
get_player_voice_model(game_value, cfg) ==
    IF game_value = <<>> THEN cfg.player_voice_model ELSE game_value[1]

\* Lines 159-169 with the equipment key never read.
VolatileFieldsNoEquipment(json) ==
    [is_in_combat |-> json.is_in_combat,
     is_enemy |-> json.is_enemy,
     relationship_rank |-> json.relationship_rank,
     custom_values |->
         IF "custom_values" \in DOMAIN json THEN json.custom_values ELSE {},
     equipment |-> {}]

\* Lines 159-169: the fields taken afresh from every request.
VolatileFields(json) ==
    [is_in_combat |-> json.is_in_combat,
     is_enemy |-> json.is_enemy,
     relationship_rank |-> json.relationship_rank,
     custom_values |->
         IF "custom_values" \in DOMAIN json THEN json.custom_values ELSE {},
     equipment |->
         IF "equipment" \in DOMAIN json
         THEN convert_to_equipment_item_dictionary(json.equipment)
         ELSE {}]

\* An except clause that catches nothing.
ExceptNothing(exc) == FALSE
\* Line 222: except CharacterDoesNotExist.
ExceptCharacterDoesNotExist(exc) == exc = "CharacterDoesNotExist"

Character(base_id, ref_id, name, gender, race, is_player_character, bio, is_in_combat, is_enemy, relationship_rank, is_generic_npc, ingame_voice_model, tts_voice_model, csv_in_game_voice_model, advanced_voice_model, voice_accent, equipment, custom_values) ==
    [base_id |-> base_id, ref_id |-> ref_id, name |-> name, gender |-> gender,
     race |-> race, is_player_character |-> is_player_character, bio |-> bio,
     is_in_combat |-> is_in_combat, is_enemy |-> is_enemy,
     relationship_rank |-> relationship_rank,
     is_generic_npc |-> is_generic_npc,
     ingame_voice_model |-> ingame_voice_model,
     tts_voice_model |-> tts_voice_model,
     csv_in_game_voice_model |-> csv_in_game_voice_model,
     advanced_voice_model |-> advanced_voice_model,
     voice_accent |-> voice_accent, equipment |-> equipment,
     custom_values |-> custom_values]

NoCharacter ==
    Character(<<>>, <<>>, "", 0, "", FALSE, "", FALSE, FALSE, 0, FALSE, <<>>,
              "", "", "", "", {}, {})

\* The outcome of an exception raised inside the try block: when the except
\* clause catches it, a log record and None; otherwise it leaves
\* load_character.
Raised(exc, made) ==
    IF ExceptCharacterDoesNotExist(exc)
    THEN [status |-> "none", rec |-> NoCharacter,
          calls |-> made \o <<Call("logging.log", None, <<"Restarting...">>)>>]
    ELSE [status |-> "raise", rec |-> NoCharacter, calls |-> made]

\* Lines 154, 158 and 170-175: name and in-game voice model as the request
\* gives them, the enrichment fields at their defaults.
ParsedInfo(json) ==
    [NoInfo EXCEPT !.name = json.name,
                   !.ingame_voice_model = ParseIngameVoiceModel(json.voicetype)]

\* Lines 178-185: the enrichment fields copied from the record already loaded.
CachedInfo(parsed, already) ==
    [parsed EXCEPT
        !.bio = already.bio,
        !.tts_voice_model = already.tts_voice_model,
        !.csv_in_game_voice_model = already.csv_in_game_voice_model,
        !.advanced_voice_model = already.advanced_voice_model,
        !.voice_accent = already.voice_accent,
        !.is_generic_npc = already.is_generic_npc]

\* Lines 187-197: the enrichment fields taken from the lookup's answer ext;
\* a generic actor also takes the lookup's name and in-game voice model.
LookedUp(json, ext, made) ==
    IF ~ext.ok
    THEN [ok |-> FALSE, exc |-> ext.exc, calls |-> made, info |-> NoInfo]
    ELSE [ok |-> TRUE, exc |-> "", calls |-> made,
          info |-> [ext.info EXCEPT
              !.name = IF ext.info.is_generic_npc
                       THEN ext.info.name ELSE json.name,
              !.ingame_voice_model =
                  IF ext.info.is_generic_npc
                  THEN ext.info.ingame_voice_model
                  ELSE ParseIngameVoiceModel(json.voicetype)]]

\* Line 177 with the test always false: no record counts as loaded.
NeverAlreadyLoaded(st, ref_id) == FALSE
\* Line 177: self.__talk and self.__talk.contains_character(ref_id).
AlreadyLoaded(st, ref_id) == st.talk # None /\ contains_character(st, ref_id)

\* Lines 170-202: the enrichment fields, with name and in-game voice model as
\* they stand after the branch taken.
Enrichment(json, st, cfg, base_id, ref_id, custom_values) ==
    IF AlreadyLoaded(st, ref_id)
    THEN [ok |-> TRUE, exc |-> "", calls |-> <<>>,
          info |-> CachedInfo(ParsedInfo(json), get_character(st, ref_id))]
    ELSE IF st.talk # None /\ ~json.is_player
    THEN LookedUp(json,
                  load_external_character_info(
                      base_id, json.name, json.race, json.gender,
                      json.voicetype),
                  <<Call("load_external_character_info", st.talk, ref_id)>>)
    ELSE IF st.talk # None /\ json.is_player /\ cfg.voice_player_input
    THEN [ok |-> TRUE, exc |-> "", calls |-> <<>>,
          info |-> [ParsedInfo(json) EXCEPT !.tts_voice_model =
              IF HasKey(custom_values, "pc_voicemodel")
              THEN get_player_voice_model(
                       <<Get(custom_values, "pc_voicemodel")>>, cfg)
              ELSE get_player_voice_model(<<>>, cfg)]]
    ELSE [ok |-> TRUE, exc |-> "", calls |-> <<>>, info |-> ParsedInfo(json)]

\* Lines 204-221: the record built from the volatile fields v and the
\* enrichment e, unless the lookup raised.
Built(json, base_id, ref_id, v, e) ==
    IF ~e.ok THEN Raised(e.exc, e.calls)
    ELSE [status |-> "ok",
          calls |-> e.calls,
          rec |-> Character(base_id, ref_id, e.info.name,
                      json.gender, json.race, json.is_player,
                      e.info.bio, v.is_in_combat, v.is_enemy,
                      v.relationship_rank, e.info.is_generic_npc,
                      e.info.ingame_voice_model,
                      e.info.tts_voice_model,
                      e.info.csv_in_game_voice_model,
                      e.info.advanced_voice_model,
                      e.info.voice_accent, v.equipment,
                      v.custom_values)]

\* Lines 154-221, once both ids are normalized.
Resolve(json, st, cfg, base_id, ref_id, v) ==
    Built(json, base_id, ref_id, v,
          Enrichment(json, st, cfg, base_id, ref_id, v.custom_values))

\* Lines 151-153: an id that cannot be normalized raises.
TryLoad(json, st, cfg, base, ref) ==
    IF ~base.ok THEN Raised(base.exc, <<>>)
    ELSE IF ~ref.ok THEN Raised(ref.exc, <<>>)
    ELSE Resolve(json, st, cfg, base.val, ref.val, VolatileFields(json))

load_character(json, st, cfg) ==
    TryLoad(json, st, cfg, convert_to_skyrim_hex_format(json.baseid),
            convert_to_skyrim_hex_format(json.refid))

(***************************************************************************)
(* GameStateManager.__update_context                                       *)
(***************************************************************************)
\* Lines 119-120: an actor that is not None is appended.
Collected(r, rest) ==
    [raised |-> rest.raised,
     actors_in_json |->
         (IF r.status = "ok" THEN <<r.rec>> ELSE <<>>) \o rest.actors_in_json,
     calls |-> r.calls \o rest.calls]

\* Lines 116-120: load_character for every actor of the request, in order;
\* an exception leaving load_character ends the loop.
RECURSIVE LoadActors(_, _, _, _)
LoadNext(actors, i, st, cfg, r) ==
    IF r.status = "raise"
    THEN [raised |-> TRUE, actors_in_json |-> <<>>, calls |-> r.calls]
    ELSE Collected(r, LoadActors(actors, i + 1, st, cfg))

LoadActors(actors, i, st, cfg) ==
    IF i > Len(actors)
    THEN [raised |-> FALSE, actors_in_json |-> <<>>, calls |-> <<>>]
    ELSE LoadNext(actors, i, st, cfg, load_character(actors[i], st, cfg))

\* Line 131 left out: the custom values of the request are never taken.
RequestCustomValuesDropped(c) == {}
\* Lines 126 and 130-131: the custom values of the request's context, empty
\* when it has none.
RequestCustomValues(c) ==
    IF "custom_context_values" \in DOMAIN c
    THEN c.custom_context_values ELSE {}

\* Lines 122-132: the loaded actors are merged and the scene context c of
\* the request replaces the conversation's.
Updated(st, c, loaded) ==
    IF loaded.raised
    THEN [st |-> st, raised |-> TRUE, calls |-> loaded.calls, built |-> <<>>]
    ELSE [st |-> conversation_update_context(
                     add_or_update_character(st, loaded.actors_in_json),
                     IF "location" \in DOMAIN c THEN <<c.location>> ELSE <<>>,
                     c.time, c.ingame_events,
                     IF "weather" \in DOMAIN c
                     THEN get_weather_description(c.weather) ELSE "",
                     RequestCustomValues(c)),
          raised |-> FALSE,
          built |-> loaded.actors_in_json,
          calls |-> loaded.calls
                    \o <<Call("add_or_update_character", st.talk, <<>>),
                         Call("update_context", st.talk, <<>>)>>]

update_context(st, json, cfg) ==
    IF st.talk = None
    THEN [st |-> st, raised |-> FALSE, calls |-> <<>>, built |-> <<>>]
    ELSE Updated(st, json.context, LoadActors(json.actors, 1, st, cfg))

(***************************************************************************)
(* Replies                                                                 *)
(***************************************************************************)
error_message(message) == [replytype |-> "error", mantella_message |-> message]

NoRunningConversation == error_message("No running conversation at this point")

\* A request an exception escaped from produces no reply of the manager.
UnhandledException == [replytype |-> "unhandled exception"]

\* str.strip(): leading and trailing blanks removed.
RECURSIVE Strip(_)
Strip(s) ==
    IF Len(s) = 0 THEN s
    ELSE IF s[1] = " " THEN Strip(Tail(s))
    ELSE IF s[Len(s)] = " " THEN Strip(SubSeq(s, 1, Len(s) - 1))
    ELSE s

sentence_to_json(sentence_to_prepare) ==
    [speaker |-> sentence_to_prepare.speaker_name,
     line_to_speak |-> Strip(sentence_to_prepare.sentence),
     voice_file |-> sentence_to_prepare.voice_file,
     duration |-> sentence_to_prepare.voice_line_duration,
     actions |-> sentence_to_prepare.actions]

(***************************************************************************)
(* The four request handlers.  Each takes the manager's state, the request *)
(* and the configuration and gives the state after, the reply and the      *)
(* calls made.                                                             *)
(***************************************************************************)
\* The manager no longer refers to a conversation: its fields are gone.
Dropped(st) ==
    [st EXCEPT !.talk = None, !.chars = {}, !.world = <<>>,
               !.ctx = InitialContext]

\* Lines 43-45 left out: the conversation held is replaced without end().
KeepPrior(st) == [st |-> Dropped(st), calls |-> <<>>]
\* Lines 43-45 with end() skipped for a conversation already ended.
EndPriorUnlessEnded(st) ==
    IF st.talk # None /\ ~IsEnded(st)
    THEN [st |-> Dropped(conversation_end(st)),
          calls |-> <<Call("end", st.talk, <<>>)>>]
    ELSE [st |-> Dropped(st), calls |-> <<>>]
\* Lines 43-45: a conversation still held is ended and dropped.
EndPrior(st) ==
    IF st.talk # None
    THEN [st |-> Dropped(conversation_end(st)),
          calls |-> <<Call("end", st.talk, <<>>)>>]
    ELSE [st |-> st, calls |-> <<>>]

\* Lines 46-49: the world id of the new conversation.
StartWorldId(json) ==
    IF "world_id" \in DOMAIN json
    THEN WORLD_ID_CLEANSE_REGEX_sub(json.world_id)
    ELSE DefaultWorld

\* Lines 50-51: a new context and a new conversation.
NewConversation(st, world_id) == conversation_new(st, world_id)

\* Lines 52 and 53 exchanged: the conversation's own start step runs before
\* the update is applied.
StartedBeforeUpdate(made, new_talk, u) ==
    IF u.raised
    THEN [st |-> u.st, reply |-> UnhandledException, built |-> <<>>,
          calls |-> made \o u.calls]
    ELSE [st |-> u.st, built |-> u.built,
          reply |-> [replytype |-> "start_conversation_completed"],
          calls |-> made \o <<Call("start_conversation", new_talk, <<>>)>>
                    \o u.calls]
\* Lines 53-55: the conversation is started and the reply sent, unless the
\* update u raised.
Started(made, new_talk, u) ==
    IF u.raised
    THEN [st |-> u.st, reply |-> UnhandledException, built |-> <<>>,
          calls |-> made \o u.calls]
    ELSE [st |-> u.st, built |-> u.built,
          reply |-> [replytype |-> "start_conversation_completed"],
          calls |-> made \o u.calls
                    \o <<Call("start_conversation", new_talk, <<>>)>>]

\* Lines 52-55, with the new conversation s2 held.
StartNew(prior_calls, s2, json, cfg) ==
    Started(prior_calls \o <<Call("conversation", s2.talk, <<>>)>>, s2.talk,
            update_context(s2, json, cfg))

\* Lines 46-55, after the prior conversation was dealt with (s1).
StartAfter(s1, json, cfg) ==
    StartNew(s1.calls, NewConversation(s1.st, StartWorldId(json)), json, cfg)

start_conversation(st, json, cfg) == StartAfter(EndPrior(st), json, cfg)

\* Lines 58 and 78 with the test always false.
NeverNotTalk(st) == FALSE
\* Lines 58 and 78: not self.__talk.
NotTalk(st) == st.talk = None

\* Lines 61-64 with the reload made whenever extra actions are sent.
ReloadOnAnyExtraActions(st, json) ==
    IF "extra_actions" \in DOMAIN json
    THEN <<Call("reload_conversation", st.talk, <<>>)>>
    ELSE <<>>
\* Lines 61-64: a reload when the extra actions contain the reload tag.
ReloadIfRequested(st, json) ==
    IF "extra_actions" \in DOMAIN json
       /\ \E i \in 1..Len(json.extra_actions) :
              json.extra_actions[i] = "reload_conversation"
    THEN <<Call("reload_conversation", st.talk, <<>>)>>
    ELSE <<>>

\* Line 69 with the test always true: a sentence is sent whatever its
\* error message.
NeverErrorMessage(sentence_to_play) == TRUE
\* Line 69: not sentence_to_play.error_message.
NoErrorMessage(sentence_to_play) == sentence_to_play.error_message = ""

\* outcome is what conversation.continue_conversation returns: the reply type
\* and no sentence (<<>>) or one sentence.
continue_conversation(st, json, outcome) ==
    IF NotTalk(st)
    THEN [st |-> st, reply |-> NoRunningConversation, calls |-> <<>>,
          built |-> <<>>]
    ELSE
    LET made == ReloadIfRequested(st, json)
                \o <<Call("continue_conversation", st.talk, <<>>)>>
        plain == [replytype |-> outcome.replyType]
    IN  IF outcome.sentence # <<>>
        THEN LET sentence_to_play == outcome.sentence[1]
             IN  IF NoErrorMessage(sentence_to_play)
                 THEN [st |-> st, built |-> <<>>,
                       reply |-> [replytype |-> outcome.replyType,
                                  npc_talk |-> sentence_to_json(sentence_to_play)],
                       calls |-> made \o
                           <<Call("prepare_sentence_for_game", st.talk, <<>>)>>]
                 ELSE [st |-> conversation_end(st), built |-> <<>>,
                       reply |-> error_message(sentence_to_play.error_message),
                       calls |-> made \o <<Call("end", st.talk, <<>>)>>]
        ELSE [st |-> st, reply |-> plain, calls |-> made, built |-> <<>>]

\* Lines 80 and 81 exchanged: the player's text is handed over before the
\* update is applied.
AnsweredBeforeUpdate(st, player_text, u) ==
    IF u.raised
    THEN [st |-> u.st, reply |-> UnhandledException, calls |-> u.calls,
          built |-> <<>>]
    ELSE [st |-> u.st, built |-> u.built,
          reply |-> [replytype |-> "npc_talk"],
          calls |-> <<Call("process_player_input", st.talk, <<player_text>>)>>
                    \o u.calls]
\* Lines 81-84: the player's text is handed to the conversation and the
\* reply sent, unless the update u raised.
Answered(st, player_text, u) ==
    IF u.raised
    THEN [st |-> u.st, reply |-> UnhandledException, calls |-> u.calls,
          built |-> <<>>]
    ELSE [st |-> u.st, built |-> u.built,
          reply |-> [replytype |-> "npc_talk"],
          calls |-> u.calls \o
              <<Call("process_player_input", st.talk, <<player_text>>)>>]

player_input(st, json, cfg) ==
    IF NotTalk(st)
    THEN [st |-> st, reply |-> NoRunningConversation, calls |-> <<>>,
          built |-> <<>>]
    ELSE Answered(st, json.player_input, update_context(st, json, cfg))

\* Lines 87-89 without the assignment of None.
end_conversation_keeping_talk(st, json) ==
    [st |-> IF st.talk # None THEN conversation_end(st) ELSE st,
     reply |-> [replytype |-> "end_conversation"],
     built |-> <<>>,
     calls |-> IF st.talk # None
               THEN <<Call("end", st.talk, <<>>)>> ELSE <<>>]

end_conversation(st, json) ==
    [st |-> IF st.talk # None THEN Dropped(conversation_end(st)) ELSE st,
     reply |-> [replytype |-> "end_conversation"],
     built |-> <<>>,
     calls |-> IF st.talk # None
               THEN <<Call("end", st.talk, <<>>)>> ELSE <<>>]

(***************************************************************************)
(* Requests the game can send.                                             *)
(***************************************************************************)
VoiceNord == <<"[","<","N","d"," ","1",">","]">>
VoiceOrc == <<"<","O","r"," ","2",">">>

Lydia ==
    [baseid |-> <<"1","0">>, refid |-> <<"2","6">>, name |-> "Lydia",
     gender |-> 1, race |-> "Nord", voicetype |-> VoiceNord,
     is_player |-> FALSE, is_in_combat |-> FALSE, is_enemy |-> FALSE,
     relationship_rank |-> 3]

\* The same reference id (written 026) under another base id, a generic one.
Guard ==
    [baseid |-> <<"1","1">>, refid |-> <<"0","2","6">>, name |-> "Guard",
     gender |-> 0, race |-> "Orc", voicetype |-> VoiceOrc,
     is_player |-> FALSE, is_in_combat |-> TRUE, is_enemy |-> TRUE,
     relationship_rank |-> 0,
     custom_values |-> {<<"mood", "angry">>},
     equipment |-> {<<"body", "Iron Armor">>}]

Player ==
    [baseid |-> <<"7">>, refid |-> <<"2","0">>, name |-> "Dragonborn",
     gender |-> 0, race |-> "Nord", voicetype |-> VoiceNord,
     is_player |-> TRUE, is_in_combat |-> FALSE, is_enemy |-> FALSE,
     relationship_rank |-> 0,
     custom_values |-> {<<"pc_voicemodel", "v1">>}]

PlayerPlain ==
    [baseid |-> <<"7">>, refid |-> <<"2","0">>, name |-> "Dragonborn",
     gender |-> 0, race |-> "Nord", voicetype |-> VoiceNord,
     is_player |-> TRUE, is_in_combat |-> TRUE, is_enemy |-> FALSE,
     relationship_rank |-> 0,
     custom_values |-> {},
     equipment |-> {}]

\* An actor whose reference id is no number.
BadRef == [Lydia EXCEPT !.refid = <<"x","1">>, !.name = "Ghost"]
\* An actor whose base id is no number.
BadBase == [Lydia EXCEPT !.baseid = <<"z">>, !.name = "Shade"]
\* An actor the enrichment lookup does not know.
Unknown ==
    [Lydia EXCEPT !.baseid = <<"9","9">>, !.name = "Stranger",
                  !.is_in_combat = TRUE, !.relationship_rank = 1]

RawActors == {Lydia, Guard, Player, PlayerPlain, BadRef, BadBase, Unknown}

ContextFull ==
    [location |-> "Whiterun", time |-> 12, ingame_events |-> <<"e1">>,
     weather |-> "rain", custom_context_values |-> {<<"k", "v">>}]
ContextMinimal == [time |-> 13, ingame_events |-> <<>>]
Contexts == {ContextFull, ContextMinimal}

ExampleWorld == <<"M","y"," ","W","o","r","l","d","!"," ","#","1">>
WorldAlphabet == {"a", "Z", "7", "!", " "}
WorldIds == SeqsUpTo(WorldAlphabet, MaxWorldLen) \cup {ExampleWorld}

\* Requests of the session life cycle: a companion and the player, every
\* context, with and without a world id.
Updates ==
    {[actors |-> a, context |-> c] :
        a \in SeqsUpTo({Lydia, Player}, MaxActors), c \in Contexts}

StartInputs ==
    Updates
    \cup {[world_id |-> ExampleWorld, actors |-> u.actors,
           context |-> u.context] : u \in Updates}

PlayerInputs ==
    {[player_input |-> "hello", actors |-> u.actors, context |-> u.context] :
        u \in Updates}

\* The lists over S of at most n pairwise different elements.
DistinctLists(S, n) ==
    {l \in SeqsUpTo(S, n) :
        \A i, j \in 1..Len(l) : i # j => l[i] # l[j]}

\* Requests that vary the actors: lists of different raw actors, drawn from
\* two companions and an actor whose reference id is no number, from a
\* companion and actors the game or the lookup cannot identify, or from the
\* player and a companion.
ActorLists ==
    DistinctLists({Lydia, Guard, BadRef}, MaxActors)
    \cup DistinctLists({Lydia, BadBase, Unknown}, MaxActors)
    \cup DistinctLists({Player, PlayerPlain, Lydia}, MaxActors)

ActorStartInputs ==
    {[actors |-> a, context |-> ContextMinimal] : a \in ActorLists}

ActorPlayerInputs ==
    {[player_input |-> "hello", actors |-> a, context |-> ContextFull] :
        a \in ActorLists}

\* Start requests that vary the world id only.
WorldStartInputs ==
    {[world_id |-> w, actors |-> <<>>, context |-> ContextMinimal] :
        w \in WorldIds}
    \cup {[actors |-> <<>>, context |-> ContextMinimal]}

TagLists ==
    {<<>>, <<"reload_conversation">>, <<"other">>,
     <<"other", "reload_conversation">>,
     <<"reload_conversation", "reload_conversation">>}
ContinueInputs ==
    {[request |-> "continue"]}
    \cup {[request |-> "continue", extra_actions |-> t] : t \in TagLists}

GoodSentence ==
    [speaker_name |-> "Lydia", sentence |-> <<" ","H","i"," ">>,
     voice_file |-> "line.wav", voice_line_duration |-> 2,
     actions |-> <<"follow">>, error_message |-> ""]
FailedSentence ==
    [GoodSentence EXCEPT !.sentence = <<>>, !.voice_file = "",
                         !.error_message = "generation failed"]

\* What conversation.continue_conversation can return.
Outcomes ==
    {[replyType |-> "npc_talk", sentence |-> <<GoodSentence>>],
     [replyType |-> "player_talk", sentence |-> <<>>],
     [replyType |-> "end_conversation", sentence |-> <<>>],
     [replyType |-> "npc_talk", sentence |-> <<FailedSentence>>]}

(***************************************************************************)
(* The state machine: one request is served at a time.                     *)
(***************************************************************************)
\* The threads that may serve requests at the same time, and the request of
\* a thread that serves none.
Threads == {"T1", "T2"}
NoRequest == [actors |-> <<>>, context |-> [time |-> 0, ingame_events |-> <<>>]]

Cur ==
    [talk |-> talk, created |-> created, ended |-> ended, chars |-> chars,
     world |-> world, ctx |-> ctx]

\* The enrichment fields of a character record.
EnrichmentOf(c) ==
    [bio |-> c.bio, tts_voice_model |-> c.tts_voice_model,
     csv_in_game_voice_model |-> c.csv_in_game_voice_model,
     advanced_voice_model |-> c.advanced_voice_model,
     voice_accent |-> c.voice_accent, is_generic_npc |-> c.is_generic_npc]

\* The history after the records built by one request: a reference id keeps
\* the entry of the first record built for it.
RECURSIVE NoteFirst(_, _, _)
NoteFirst(first, built, i) ==
    IF i > Len(built) THEN first
    ELSE NoteFirst(
             IF \E f \in first : f.ref_id = built[i].ref_id THEN first
             ELSE first \cup {[ref_id |-> built[i].ref_id,
                               info |-> EnrichmentOf(built[i])]},
             built, i + 1)

Serve(k, r) ==
    /\ talk' = r.st.talk
    /\ first_resolved' =
           NoteFirst(IF r.st.talk = talk THEN first_resolved ELSE {},
                     r.built, 1)
    /\ created' = r.st.created
    /\ ended' = r.st.ended
    /\ chars' = r.st.chars
    /\ world' = r.st.world
    /\ ctx' = r.st.ctx
    /\ kind' = k
    /\ reply' = r.reply
    /\ calls' = r.calls
    /\ UNCHANGED <<config, pc, req>>

Init ==
    /\ talk = None
    /\ created = 0
    /\ ended = {}
    /\ chars = {}
    /\ world = <<>>
    /\ ctx = InitialContext
    /\ config \in {[voice_player_input |-> b, player_voice_model |-> "cfg_voice"] :
                      b \in BOOLEAN}
    /\ first_resolved = {}
    /\ kind = "none"
    /\ reply = [replytype |-> "none"]
    /\ calls = <<>>
    /\ pc = [t \in Threads |-> "idle"]
    /\ req = [t \in Threads |-> NoRequest]

StartRequest ==
    /\ created < MaxSessions
    /\ \E json \in StartInputs :
           Serve("start", start_conversation(Cur, json, config))

ContinueRequest ==
    \E json \in ContinueInputs, outcome \in Outcomes :
        Serve("continue", continue_conversation(Cur, json, outcome))

PlayerInputRequest ==
    \E json \in PlayerInputs :
        Serve("player_input", player_input(Cur, json, config))

EndRequest ==
    Serve("end", end_conversation(Cur, [request |-> "end"]))

Next ==
    \/ StartRequest
    \/ ContinueRequest
    \/ PlayerInputRequest
    \/ EndRequest

Spec == Init /\ [][Next]_vars

\* The character cache: start and player-input requests over every list of
\* raw actors, continue requests whose generation fails, and end requests.
ActorStartRequest ==
    /\ created < MaxSessions
    /\ \E json \in ActorStartInputs :
           Serve("start", start_conversation(Cur, json, config))

ActorPlayerInputRequest ==
    \E json \in ActorPlayerInputs :
        Serve("player_input", player_input(Cur, json, config))

\* A continue request whose generation step fails.
ActorContinueRequest ==
    \E outcome \in {o \in Outcomes : o.sentence = <<FailedSentence>>} :
        Serve("continue",
              continue_conversation(Cur, [request |-> "continue"], outcome))

ActorNext ==
    \/ ActorStartRequest
    \/ ActorPlayerInputRequest
    \/ ActorContinueRequest
    \/ EndRequest

ActorSpec == Init /\ [][ActorNext]_vars

\* The world id: start requests over every raw world id, and end requests.
WorldStartRequest ==
    /\ created < MaxSessions
    /\ \E json \in WorldStartInputs :
           Serve("start", start_conversation(Cur, json, config))

WorldNext ==
    \/ WorldStartRequest
    \/ EndRequest

WorldSpec == Init /\ [][WorldNext]_vars

(***************************************************************************)
(* Start requests served by several threads at once.  The manager takes no *)
(* lock, so the lines of start_conversation of one thread interleave with  *)
(* those of another; every step below is one line (or one run of lines     *)
(* that touch no shared field).  In this specification kind, reply and     *)
(* calls describe the last step taken.                                     *)
(***************************************************************************)
ConcStartInputs ==
    {[actors |-> <<>>, context |-> ContextMinimal],
     [actors |-> <<Lydia>>, context |-> ContextFull],
     [world_id |-> ExampleWorld, actors |-> <<Player>>,
      context |-> ContextMinimal]}

\* The threads that have entered start_conversation and not yet constructed
\* their conversation.
BeforeCreate == {t \in Threads : pc[t] \in {"l43", "l44", "l45", "l46"}}

\* One step of thread t: the manager's fields become those of st.
Step(t, label, st, made) ==
    /\ talk' = st.talk
    /\ created' = st.created
    /\ ended' = st.ended
    /\ chars' = st.chars
    /\ world' = st.world
    /\ ctx' = st.ctx
    /\ kind' = "start"
    /\ calls' = made
    /\ pc' = [pc EXCEPT ![t] = label]
    /\ UNCHANGED config

\* An AttributeError: self.__talk was None where a call was made on it.
Crash(t) ==
    /\ Step(t, "idle", Cur, <<>>)
    /\ reply' = UnhandledException
    /\ req' = [req EXCEPT ![t] = NoRequest]
    /\ UNCHANGED first_resolved

\* Line 42: a thread takes a start request.
StartReceive(t) ==
    /\ pc[t] = "idle"
    /\ created + Cardinality(BeforeCreate) < MaxSessions
    /\ \E json \in ConcStartInputs : req' = [req EXCEPT ![t] = json]
    /\ Step(t, "l43", Cur, <<>>)
    /\ UNCHANGED <<reply, first_resolved>>

\* Line 43: if self.__talk.
StartTestTalk(t) ==
    /\ pc[t] = "l43"
    /\ Step(t, IF talk # None THEN "l44" ELSE "l46", Cur, <<>>)
    /\ UNCHANGED <<reply, req, first_resolved>>

\* Line 44: self.__talk.end(), on whatever self.__talk is by now.
StartEndPrior(t) ==
    /\ pc[t] = "l44"
    /\ IF talk = None
       THEN Crash(t)
       ELSE /\ Step(t, "l45", conversation_end(Cur),
                    <<Call("end", talk, <<>>)>>)
            /\ UNCHANGED <<reply, req, first_resolved>>

\* Line 45: self.__talk = None.
StartDropPrior(t) ==
    /\ pc[t] = "l45"
    /\ Step(t, "l46", Dropped(Cur), <<>>)
    /\ UNCHANGED <<reply, req, first_resolved>>

\* Lines 46-51: the world id, the context and the conversation are made and
\* the conversation assigned to self.__talk.
StartCreate(t) ==
    /\ pc[t] = "l46"
    /\ Step(t, "l52", NewConversation(Cur, StartWorldId(req[t])),
            <<Call("conversation", created + 1, <<>>)>>)
    /\ first_resolved' = {}
    /\ UNCHANGED <<reply, req>>

\* The update of line 52 with result u, on whatever self.__talk is by now.
StartUpdated(t, u) ==
    /\ Step(t, "l53", u.st, u.calls)
    /\ first_resolved' = NoteFirst(first_resolved, u.built, 1)
    /\ UNCHANGED <<reply, req>>

\* Line 52: self.__update_context(input_json).
StartUpdate(t) ==
    /\ pc[t] = "l52"
    /\ StartUpdated(t, update_context(Cur, req[t], config))

\* Line 53: self.__talk.start_conversation().
StartConversation(t) ==
    /\ pc[t] = "l53"
    /\ IF talk = None
       THEN Crash(t)
       ELSE /\ Step(t, "l55", Cur, <<Call("start_conversation", talk, <<>>)>>)
            /\ UNCHANGED <<reply, req, first_resolved>>

\* Line 55: the reply is returned.
StartReply(t) ==
    /\ pc[t] = "l55"
    /\ Step(t, "idle", Cur, <<>>)
    /\ reply' = [replytype |-> "start_conversation_completed"]
    /\ req' = [req EXCEPT ![t] = NoRequest]
    /\ UNCHANGED first_resolved

ConcNext ==
    \E t \in Threads :
        \/ StartReceive(t)
        \/ StartTestTalk(t)
        \/ StartEndPrior(t)
        \/ StartDropPrior(t)
        \/ StartCreate(t)
        \/ StartUpdate(t)
        \/ StartConversation(t)
        \/ StartReply(t)

ConcSpec == Init /\ [][ConcNext]_vars

(***************************************************************************)
(* Properties                                                              *)
(***************************************************************************)
\* The conversation held has not been ended.
Active == talk # None /\ talk \notin ended

IsAlphanumeric(c) == c \in (UpperCase \cup LowerCase \cup Digits)
IsNumber(s) == Len(s) > 0 /\ \A i \in 1..Len(s) : s[i] \in Digits
RefOf(a) == convert_to_skyrim_hex_format(a.refid).val
BaseOf(a) == convert_to_skyrim_hex_format(a.baseid).val
EndRequestJson == [request |-> "end"]

\* The raw actor's ids cannot be normalized.
FailsIdentity(a) == ~IsNumber(a.baseid) \/ ~IsNumber(a.refid)

\* The raw actor yields a record in conversation st: its ids are numbers and
\* it is known to st, or is the player, or is known to the lookup.
Resolvable(a, st) ==
    /\ ~FailsIdentity(a)
    /\ \/ contains_character(st, RefOf(a))
       \/ a.is_player
       \/ a.baseid # <<"9","9">>

\* Actor i is the last actor of the list that yields a record for its
\* reference id.
LastMention(actors, i, st) ==
    /\ Resolvable(actors[i], st)
    /\ \A j \in (i + 1)..Len(actors) :
           ~(Resolvable(actors[j], st) /\ RefOf(actors[j]) = RefOf(actors[i]))

\* The conversation a start request updates: the fresh one.
FreshConversation(st, json) ==
    NewConversation(EndPrior(st).st, StartWorldId(json))

VolatileOf(c) ==
    [is_in_combat |-> c.is_in_combat, is_enemy |-> c.is_enemy,
     relationship_rank |-> c.relationship_rank, equipment |-> c.equipment,
     custom_values |-> c.custom_values]

\* The volatile fields a raw actor supplies.
SuppliedVolatile(a) ==
    [is_in_combat |-> a.is_in_combat, is_enemy |-> a.is_enemy,
     relationship_rank |-> a.relationship_rank,
     equipment |-> IF "equipment" \in DOMAIN a
                   THEN {<<p[1], [EquipmentItem |-> p[2]]>> : p \in a.equipment}
                   ELSE {},
     custom_values |-> IF "custom_values" \in DOMAIN a
                       THEN a.custom_values ELSE {}]

\* The scene context a request supplies.
SuppliedContext(c) ==
    [location |-> IF "location" \in DOMAIN c THEN <<c.location>> ELSE <<>>,
     time |-> c.time, ingame_events |-> c.ingame_events,
     weather |-> IF "weather" \in DOMAIN c
                 THEN get_weather_description(c.weather) ELSE "",
     custom_context_values |->
         IF "custom_context_values" \in DOMAIN c
         THEN c.custom_context_values ELSE {}]

CallsOf(cs, op) == {k \in 1..Len(cs) : cs[k].op = op}

\* C1: every conversation the manager ever constructed, other than the one
\* it holds, has had end() called on it; so at most one conversation is
\* constructed and not ended.
C1_OnlyHeldConversationUnended ==
    \A s \in 1..created : s # talk => s \in ended

\* A start request served while conversation 1 was held: it ended 1.
C1_Witness ==
    /\ kind = "start"
    /\ created = 2 /\ talk = 2 /\ 1 \in ended
    /\ calls[1] = Call("end", 1, <<>>)

\* C2: the continue request that follows a continue request whose generation
\* failed (no start in between) is answered "No running conversation" and
\* nothing is delegated to the ended conversation.
C2_ContinueAfterGenerationError ==
    [][(/\ kind = "continue"
        /\ reply.replytype = "error"
        /\ reply.mantella_message = FailedSentence.error_message
        /\ kind' = "continue")
       => (reply' = NoRunningConversation /\ calls' = <<>>)]_vars

\* The request was refused: the error reply, no call, no record, no change.
Refused(r) ==
    /\ r.reply = NoRunningConversation
    /\ r.calls = <<>> /\ r.built = <<>> /\ r.st = Cur

\* C3: with no conversation held, a continue or a player-input request is
\* answered with an error, makes no call, builds no record and leaves the
\* manager's state as it was.
C3_NoConversationNoEffect ==
    talk = None =>
        /\ \A json \in ContinueInputs, outcome \in Outcomes :
               Refused(continue_conversation(Cur, json, outcome))
        /\ \A json \in PlayerInputs :
               Refused(player_input(Cur, json, config))

\* A player-input request answered with the error after conversation 1 was
\* ended by an end request.
C3_Witness ==
    /\ kind = "player_input"
    /\ reply.replytype = "error" /\ reply = NoRunningConversation
    /\ talk = None /\ created = 1 /\ ended = {1} /\ calls = <<>>

\* C4: in the conversation held, the enrichment fields of the record of a
\* reference id are those of the first record built for that reference id.
C4_EnrichmentFixedAtFirstResolution ==
    Active =>
        \A c \in chars, f \in first_resolved :
            f.ref_id = c.ref_id => EnrichmentOf(c) = f.info

\* An update about actors leaves, for every reference id it yields a record
\* for, the volatile fields of the last such actor.
KeepsLatestVolatile(before, json, after) ==
    \A i \in 1..Len(json.actors) :
        LastMention(json.actors, i, before) =>
            \E c \in after.chars :
                /\ c.ref_id = RefOf(json.actors[i])
                /\ VolatileOf(c) = SuppliedVolatile(json.actors[i])

\* C5: after an update that mentions a reference id, the combat flag, enemy
\* flag, relationship rank, equipment and custom values of its record are
\* those the update supplies (absent equipment and custom values being
\* empty), whatever the record held before.
C5_VolatileFromLatestUpdate ==
    /\ Active =>
           \A json \in ActorPlayerInputs :
               KeepsLatestVolatile(Cur, json, player_input(Cur, json, config).st)
    /\ \A json \in ActorStartInputs :
           KeepsLatestVolatile(FreshConversation(Cur, json), json,
                               start_conversation(Cur, json, config).st)

\* A record first built from Lydia (base id A) that now carries the
\* volatile fields of Guard, the later update.
C5_Witness ==
    /\ kind = "player_input" /\ Active
    /\ \E c \in chars :
           /\ c.bio = "bio_A"
           /\ VolatileOf(c) = SuppliedVolatile(Guard)

\* An update in which actor i fails identity parsing and actor j yields a
\* record: the reply is the normal one, j's reference id has a record (j's
\* own when j is its last mention), no record is built from i, and the
\* scene context is the request's.
SkipsUnparsable(before, json, r, normal) ==
    \A i, j \in 1..Len(json.actors) :
        (FailsIdentity(json.actors[i]) /\ Resolvable(json.actors[j], before))
        => /\ r.reply = normal
           /\ \E c \in r.st.chars :
                  /\ c.ref_id = RefOf(json.actors[j])
                  /\ LastMention(json.actors, j, before)
                         => /\ c.base_id = BaseOf(json.actors[j])
                            /\ c.is_player_character = json.actors[j].is_player
           /\ \A c \in r.st.chars : c.name # json.actors[i].name
           /\ Len(r.built) < Len(json.actors)
           /\ r.st.ctx = SuppliedContext(json.context)

EndsPriorAndStartsEmpty(json, r) ==
    /\ r.calls[1] = Call("end", talk, <<>>)
    /\ r.calls[2] = Call("conversation", created + 1, <<>>)
    /\ talk \in r.st.ended
    /\ r.st.talk = created + 1
    /\ Cardinality(CallsOf(r.calls, "load_external_character_info"))
           = Cardinality({i \in 1..Len(json.actors) :
                             /\ ~FailsIdentity(json.actors[i])
                             /\ ~json.actors[i].is_player})
    /\ \A c \in r.st.chars :
           \E i \in 1..Len(json.actors) :
               /\ ~FailsIdentity(json.actors[i])
               /\ RefOf(json.actors[i]) = c.ref_id

\* C7: a start request served while a conversation is held first calls end()
\* on it, then constructs the new conversation; the new conversation holds
\* records of the request's actors only, and every non-player actor of the
\* request is looked up anew.
C7_StartEndsPriorAndStartsEmpty ==
    talk # None =>
        \A json \in StartInputs :
            EndsPriorAndStartsEmpty(json, start_conversation(Cur, json, config))

\* A start request that ended conversation 1, constructed conversation 2 and
\* looked an actor up for it.
C7_Witness ==
    /\ kind = "start" /\ talk = 2
    /\ Len(calls) >= 3
    /\ calls[1] = Call("end", 1, <<>>)
    /\ calls[2] = Call("conversation", 2, <<>>)
    /\ calls[3].op = "load_external_character_info"
    /\ chars # {}

\* r1 is the result of an end request, r2 that of a second one after it.
EndsOnce(r1, r2) ==
    /\ r1.reply = [replytype |-> "end_conversation"]
    /\ r1.st.talk = None
    /\ talk = None => (r1.calls = <<>> /\ r1.st = Cur)
    /\ talk # None => r1.calls = <<Call("end", talk, <<>>)>>
    /\ r2.st = r1.st /\ r2.reply = r1.reply /\ r2.calls = <<>>

EndThenEnd(r1) == EndsOnce(r1, end_conversation(r1.st, EndRequestJson))

\* C8: an end request is answered with the end-conversation reply and leaves
\* no conversation held; with none held it calls nothing and changes
\* nothing; a second end request changes nothing more.
C8_EndIdempotent == EndThenEnd(end_conversation(Cur, EndRequestJson))

\* An end request served with no conversation held, after one was ended.
C8_Witness ==
    /\ kind = "end" /\ talk = None /\ calls = <<>>
    /\ reply = [replytype |-> "end_conversation"]
    /\ ended # {}

\* The calls of a continue request: with the reload tag, one reload and then
\* the generation; without it, the generation only.
ReloadsAsTagged(tagged, cs) ==
    /\ Cardinality(CallsOf(cs, "continue_conversation")) = 1
    /\ tagged => /\ CallsOf(cs, "reload_conversation") = {1}
                 /\ CallsOf(cs, "continue_conversation") = {2}
    /\ ~tagged => /\ CallsOf(cs, "reload_conversation") = {}
                  /\ CallsOf(cs, "continue_conversation") = {1}

\* C9: on an active conversation, a continue request whose extra actions
\* contain the reload tag makes exactly one reload, before the generation
\* call; any other continue request makes none.
C9_ReloadOnceBeforeGeneration ==
    Active =>
        \A json \in ContinueInputs, outcome \in Outcomes :
            ReloadsAsTagged(
                /\ "extra_actions" \in DOMAIN json
                /\ \E i \in 1..Len(json.extra_actions) :
                       json.extra_actions[i] = "reload_conversation",
                continue_conversation(Cur, json, outcome).calls)

\* A continue request that reloaded and then generated a line.
C9_Witness ==
    /\ kind = "continue" /\ Active
    /\ Len(calls) >= 2
    /\ calls[1] = Call("reload_conversation", talk, <<>>)
    /\ calls[2] = Call("continue_conversation", talk, <<>>)
    /\ "npc_talk" \in DOMAIN reply

\* C10: the world id of a new conversation is the request's world id without
\* its characters outside [A-Za-z0-9], the others kept in order ("My World!
\* #1" gives "MyWorld1"), or "default" when the request has none; the world id
\* of the conversation held has no character outside [A-Za-z0-9].
C10_WorldIdCleansed ==
    /\ \A json \in WorldStartInputs :
           start_conversation(Cur, json, config).st.world =
               IF "world_id" \in DOMAIN json
               THEN SelectSeq(json.world_id, IsAlphanumeric)
               ELSE DefaultWorld
    /\ start_conversation(
           Cur, [world_id |-> ExampleWorld, actors |-> <<>>,
                 context |-> ContextMinimal], config).st.world
           = <<"M","y","W","o","r","l","d","1">>
    /\ talk # None => \A i \in 1..Len(world) : IsAlphanumeric(world[i])

\* A conversation started with the world id "My World! #1".
C10_Witness ==
    /\ kind = "start" /\ Active
    /\ world = <<"M","y","W","o","r","l","d","1">>

\* The result r of an update with request json leaves the request's scene
\* context, with the defaults for what the request omits.
TakesSnapshot(json, r) ==
    /\ r.st.ctx = SuppliedContext(json.context)
    /\ "location" \notin DOMAIN json.context => r.st.ctx.location = <<>>
    /\ "weather" \notin DOMAIN json.context => r.st.ctx.weather = ""
    /\ "custom_context_values" \notin DOMAIN json.context
           => r.st.ctx.custom_context_values = {}

\* C11: after a context update (by a player-input request on an active
\* conversation, or by a start request) location, time, in-game events,
\* weather and custom values are exactly the request's; what the request
\* omits is at its default, whatever the context held before.
C11_ContextLatestSnapshot ==
    /\ Active =>
           \A json \in PlayerInputs :
               TakesSnapshot(json, player_input(Cur, json, config))
    /\ \A json \in StartInputs :
           TakesSnapshot(json, start_conversation(Cur, json, config))

\* A player-input request that sent neither location, weather nor custom
\* values: the conversation's context holds the defaults.
C11_Witness ==
    /\ kind = "player_input" /\ Active
    /\ calls # <<>> /\ calls[Len(calls)].op = "process_player_input"
    /\ ctx = SuppliedContext(ContextMinimal)
    /\ ctx.location = <<>> /\ ctx.weather = "" /\ ctx.custom_context_values = {}

\* The lookups of the last request that failed: the call is followed at once
\* by the log record of load_character's except clause.
FailedLookups ==
    {k \in CallsOf(calls, "load_external_character_info") :
        k < Len(calls) /\ calls[k + 1].op = "logging.log"}

\* C12: when the enrichment lookup fails for a new non-player actor, the
\* update goes on and the actor's record is added, with empty biography,
\* voice models and accent: so, after a request, the conversation holds a
\* record for the reference id of every lookup that failed, and that record
\* has empty enrichment fields unless a later actor of the request replaced it.
C12_LookupFailureEmptyEnrichment ==
    (Active /\ kind \in {"start", "player_input"}) =>
        /\ reply.replytype \in {"start_conversation_completed", "npc_talk"}
        /\ \A k \in FailedLookups :
               \E c \in chars :
                   /\ c.ref_id = calls[k].arg
                   /\ c.base_id = <<"6","3">> =>
                          /\ c.bio = "" /\ c.tts_voice_model = ""
                          /\ c.csv_in_game_voice_model = ""
                          /\ c.advanced_voice_model = ""
                          /\ c.voice_accent = ""

\* C13: while two start requests are served at once, never are two
\* conversations constructed and not ended, and every conversation the
\* manager does not hold has been ended.
C13_ConcurrentStartsOneConversation ==
    /\ Cardinality({s \in 1..created : s \notin ended}) <= 1
    /\ \A s \in 1..created : s # talk => s \in ended

\* The start request json with result r: the start-completed reply, a fresh
\* conversation held and not ended, the request's actors and context applied
\* to it, and the conversation's own start step as the last call, after the
\* update.
StartsFresh(json, fresh, r) ==
    /\ r.reply = [replytype |-> "start_conversation_completed"]
    /\ r.st.created = created + 1
    /\ r.st.talk = created + 1
    /\ r.st.talk \notin r.st.ended
    /\ r.st.ctx = SuppliedContext(json.context)
    /\ \A i \in 1..Len(json.actors) :
           Resolvable(json.actors[i], fresh)
               => \E c \in r.st.chars : c.ref_id = RefOf(json.actors[i])
    /\ Len(r.calls) >= 4
    /\ CallsOf(r.calls, "conversation") = {Len(r.calls) - 3 - Cardinality(
           CallsOf(r.calls, "load_external_character_info")
           \cup CallsOf(r.calls, "logging.log"))}
    /\ CallsOf(r.calls, "add_or_update_character") = {Len(r.calls) - 2}
    /\ CallsOf(r.calls, "update_context") = {Len(r.calls) - 1}
    /\ CallsOf(r.calls, "start_conversation") = {Len(r.calls)}
    /\ r.calls[Len(r.calls)].s = created + 1

\* C14: a start request, from any state of the manager (no conversation, an
\* active one, one ended by a generation error), gets the start-completed
\* reply and leaves a fresh active conversation held, to which the request's
\* actors and scene context were applied before the conversation's own start
\* step and before the reply.
C14_StartAlwaysCompletes ==
    \A json \in StartInputs :
        StartsFresh(json, FreshConversation(Cur, json),
                    start_conversation(Cur, json, config))

\* A second start request, answered with the start-completed reply, whose
\* conversation holds the request's actor and context and was started last.
C14_Witness ==
    /\ kind = "start" /\ Active /\ created = 2 /\ talk = 2
    /\ reply = [replytype |-> "start_conversation_completed"]
    /\ chars # {}
    /\ ctx = SuppliedContext(ContextFull)
    /\ calls[Len(calls)] = Call("start_conversation", 2, <<>>)
    /\ calls[Len(calls) - 1].op = "update_context"

\* C15: between two requests the manager holds no conversation or one on
\* which end() has not been called, so nothing is ever delegated to an ended
\* conversation.
C15_HeldConversationNeverEnded == talk # None => talk \notin ended

\* The raw actors of a request that are looked up in conversation before:
\* their ids normalize, they are not the player and before holds no record
\* of their reference id.
NewNonPlayers(before, json) ==
    {i \in 1..Len(json.actors) :
        /\ ~FailsIdentity(json.actors[i])
        /\ ~json.actors[i].is_player
        /\ ~contains_character(before, RefOf(json.actors[i]))}

\* The lookups among the calls cs are those of the new non-player actors:
\* one each, none for a reference id held, none for the player.
LooksUpOnlyNew(before, json, cs) ==
    /\ \A k \in CallsOf(cs, "load_external_character_info") :
           /\ ~contains_character(before, cs[k].arg)
           /\ \E i \in NewNonPlayers(before, json) :
                  RefOf(json.actors[i]) = cs[k].arg
    /\ Cardinality(CallsOf(cs, "load_external_character_info"))
           = Cardinality(NewNonPlayers(before, json))

\* C16: the enrichment lookup is not made for an actor whose reference id the
\* conversation holds, nor for the player; it is made, once, for every
\* non-player actor whose reference id the conversation does not hold when
\* the actor is resolved.
C16_LookupOnlyForNewNonPlayers ==
    /\ talk # None =>
           \A json \in ActorPlayerInputs :
               LooksUpOnlyNew(Cur, json, player_input(Cur, json, config).calls)
    /\ \A json \in ActorStartInputs :
           LooksUpOnlyNew(FreshConversation(Cur, json), json,
                          start_conversation(Cur, json, config).calls)

\* An active conversation that holds a record for reference id 1A: a
\* player-input request about Lydia (reference id 1A) and the player makes
\* no lookup and merges both.
C16_Witness ==
    /\ Active
    /\ \E c \in chars : c.ref_id = <<"1","A">> /\ ~c.is_player_character
    /\ \E json \in ActorPlayerInputs :
           /\ json.actors = <<Lydia, Player>>
           /\ CallsOf(player_input(Cur, json, config).calls,
                      "load_external_character_info") = {}
           /\ Cardinality(player_input(Cur, json, config).st.chars) = 2

\* C17: every record of an actor the lookup marked generic carries the name
\* and the in-game voice model the lookup returned (Bandit, Gv), on the first
\* sighting and after every later update, not those of the raw request.
\* Stated for the records of base id B, the generic template.
C17_GenericKeepsLookupIdentity ==
    Active =>
        \A c \in chars :
            (c.is_generic_npc /\ c.base_id = <<"B">>) =>
                /\ c.name = "Bandit"
                /\ c.ingame_voice_model = <<"G","v">>

\* The synthesized-voice model of a player first seen with the given custom
\* values: the request's override, else the configured model; empty when
\* player voice input is off.
ExpectedPlayerVoice(custom_values) ==
    IF ~config.voice_player_input THEN ""
    ELSE IF \E p \in custom_values : p[1] = "pc_voicemodel"
    THEN (CHOOSE p \in custom_values : p[1] = "pc_voicemodel")[2]
    ELSE config.player_voice_model

\* C18: the record of the player, built on the first sighting, has empty biography, accent, fallback and advanced voice
\* models and is not generic; its synthesized-voice model is empty when
\* player voice input is off, else an override or the configured model.  After
\* a start request, where every record is a first sighting and carries the
\* custom values of its raw actor, it is the override of those custom values
\* when there is one and the configured model otherwise.
C18_PlayerVoiceOnFirstSighting ==
    Active =>
        \A c \in chars :
            c.is_player_character =>
                /\ c.bio = "" /\ c.voice_accent = ""
                /\ c.csv_in_game_voice_model = ""
                /\ c.advanced_voice_model = ""
                /\ ~c.is_generic_npc
                /\ ~config.voice_player_input => c.tts_voice_model = ""
                /\ config.voice_player_input =>
                       c.tts_voice_model \in {config.player_voice_model, "v1"}
                /\ kind = "start" =>
                       c.tts_voice_model = ExpectedPlayerVoice(c.custom_values)

\* A start request with player voice input on whose player sent the override
\* v1: the record carries it.
C18_Witness ==
    /\ kind = "start" /\ Active
    /\ config.voice_player_input
    /\ \E c \in chars :
           /\ c.is_player_character
           /\ c.custom_values = {<<"pc_voicemodel", "v1">>}
           /\ c.tts_voice_model = "v1"

\* C19: a player-input request on an active conversation applies the update
\* of actors and scene context, then hands the player's text to the
\* conversation, and is answered with the bare npc_talk reply (no sentence);
\* it makes no generation call, ends no conversation and constructs none, and
\* the manager holds the same conversation, not ended, afterwards.
C19_PlayerInputUpdatesThenRecords ==
    [][(kind' = "player_input" /\ talk # None /\ talk \notin ended) =>
        /\ talk' = talk /\ created' = created /\ ended' = ended
        /\ reply' = [replytype |-> "npc_talk"]
        /\ DOMAIN reply' = {"replytype"}
        /\ Len(calls') >= 3
        /\ calls'[Len(calls')] = Call("process_player_input", talk, <<"hello">>)
        /\ calls'[Len(calls') - 1] = Call("update_context", talk, <<>>)
        /\ calls'[Len(calls') - 2] = Call("add_or_update_character", talk, <<>>)
        /\ \A k \in 1..Len(calls') :
               calls'[k].op \notin {"continue_conversation", "end",
                                    "conversation", "reload_conversation",
                                    "start_conversation",
                                    "prepare_sentence_for_game"}
        /\ \E c \in Contexts : ctx' = SuppliedContext(c)
      ]_vars

\* A player-input request served on an active conversation that holds a
\* character: the update was applied and the text handed over last.
C19_Witness ==
    /\ kind = "player_input" /\ Active
    /\ reply = [replytype |-> "npc_talk"]
    /\ chars # {}
    /\ Len(calls) >= 3
    /\ calls[Len(calls)] = Call("process_player_input", talk, <<"hello">>)
    /\ calls[Len(calls) - 1].op = "update_context"

\* The conversation produced a sentence that has no error message.
ProducedSentence(outcome) ==
    /\ outcome.sentence # <<>>
    /\ outcome.sentence[1].error_message = ""

\* The result r of a continue request whose generation gave outcome: the
\* sentence payload is there exactly for a sentence without error message;
\* without a sentence the reply is the bare reply type of the conversation;
\* in both cases the manager's state is as before.
Renders(outcome, r) ==
    /\ ("npc_talk" \in DOMAIN r.reply) <=> ProducedSentence(outcome)
    /\ ProducedSentence(outcome) =>
           /\ r.reply.replytype = outcome.replyType
           /\ r.reply.npc_talk.speaker = outcome.sentence[1].speaker_name
           /\ r.reply.npc_talk.line_to_speak = <<"H","i">>
           /\ r.reply.npc_talk.voice_file = outcome.sentence[1].voice_file
           /\ r.reply.npc_talk.duration
                  = outcome.sentence[1].voice_line_duration
           /\ r.reply.npc_talk.actions = outcome.sentence[1].actions
    /\ outcome.sentence = <<>> => r.reply = [replytype |-> outcome.replyType]
    /\ (ProducedSentence(outcome) \/ outcome.sentence = <<>>) =>
           /\ r.st = Cur
           /\ \A k \in 1..Len(r.calls) :
                  r.calls[k].op \notin {"end", "conversation"}

\* C20: on an active conversation the reply to a continue request carries
\* the npc_talk sentence payload if and only if the conversation produced a
\* sentence without error message; with no sentence it is the bare reply
\* type the conversation returned; in both cases the conversation is neither
\* ended nor replaced and its characters are unchanged.
C20_ContinueRendersOutcome ==
    Active =>
        \A json \in ContinueInputs, outcome \in Outcomes :
            Renders(outcome, continue_conversation(Cur, json, outcome))

\* A continue request answered with a sentence, on a conversation that still
\* holds its character.
C20_Witness ==
    /\ kind = "continue" /\ Active
    /\ chars # {}
    /\ "npc_talk" \in DOMAIN reply
    /\ reply.npc_talk.line_to_speak = <<"H","i">>
    /\ calls[Len(calls)].op = "prepare_sentence_for_game"
====
